---- MODULE Spec2Model ----
(***************************************************************************)
(* The gifting confirmation screen (ConfirmPage) of event-gifting:         *)
(* app/events/[id]/performers/[performerId]/confirm/page.tsx.              *)
(*                                                                         *)
(* One behaviour is the life of one mounted screen instance: the mount     *)
(* effect that snapshots the payment draft, the confirm gestures, the      *)
(* asynchronous saveGifting calls and their results, the delayed           *)
(* navigation, and the user leaving the screen.  Texts that the code       *)
(* parses or formats (route parameters, the amount, paths, artist ids)     *)
(* are sequences of one-character strings or tokens; texts it only passes  *)
(* on are strings.  The Japanese texts of the source are written in ASCII. *)
(***************************************************************************)
EXTENDS Integers, Sequences, FiniteSets, TLC

VARIABLES
    params,        \* the route parameters {id, performerId} (props, line 23)
    draftStore,    \* what getPaymentInfo() returns now (external store)
    sessionStore,  \* what getUserSession() returns now (external store)
    mounted,       \* the screen instance is mounted
    effectRan,     \* the mount effect (lines 35-48) has run
    isSubmitting,  \* useState, line 28
    paymentInfo,   \* useState, line 29
    gestures,      \* number of confirm gestures received so far
    sessionLog,    \* per accepted attempt: the session getUserSession() gave
    handler,       \* per accepted attempt: position of its handleConfirm call
    saveLog,       \* the saveGifting invocations: [att, record]
    resultLog,     \* the saveGifting results received: [att, result, mounted]
    toastLog,      \* the toast() calls: [att, description]
    navLog,        \* the router.push() calls: [att, path]; att 0 is the effect
    timers         \* attempts whose setTimeout callback is pending

vars == <<params, draftStore, sessionStore, mounted, effectRan, isSubmitting,
          paymentInfo, gestures, sessionLog, handler, saveLog, resultLog,
          toastLog, navLog, timers>>

(***************************************************************************)
(* Bounds of the model.                                                    *)
(***************************************************************************)
MaxGestures == 2

(***************************************************************************)
(* JavaScript values.                                                      *)
(***************************************************************************)
Null == [null |-> TRUE]
NaN == [nan |-> TRUE]
Num(n) == [nan |-> FALSE, val |-> n]

DigitChars == {"0", "1", "2", "3", "4", "5", "6", "7", "8", "9"}

DigitVal(c) ==
    CASE c = "0" -> 0 [] c = "1" -> 1 [] c = "2" -> 2 [] c = "3" -> 3
      [] c = "4" -> 4 [] c = "5" -> 5 [] c = "6" -> 6 [] c = "7" -> 7
      [] c = "8" -> 8 [] c = "9" -> 9

DigitChar(d) == <<"0", "1", "2", "3", "4", "5", "6", "7", "8", "9">>[d + 1]

RECURSIVE SkipWhiteSpace(_)
SkipWhiteSpace(s) ==
    IF s # <<>> /\ Head(s) = " " THEN SkipWhiteSpace(Tail(s)) ELSE s

RECURSIVE ParseDigits(_, _)
ParseDigits(s, acc) ==
    IF s # <<>> /\ Head(s) \in DigitChars
    THEN ParseDigits(Tail(s), acc * 10 + DigitVal(Head(s)))
    ELSE acc

\* Number.parseInt(string) with no radix, on texts without a 0x prefix:
\* leading white space is skipped, a sign is read, then the longest run of
\* decimal digits; what follows is ignored; no digit gives NaN.
ParseInt(str) ==
    LET t == SkipWhiteSpace(str)
        signed == t # <<>> /\ Head(t) \in {"+", "-"}
        u == IF signed THEN Tail(t) ELSE t
    IN  IF u = <<>> \/ Head(u) \notin DigitChars
        THEN NaN
        ELSE IF signed /\ Head(t) = "-"
             THEN Num(0 - ParseDigits(u, 0))
             ELSE Num(ParseDigits(u, 0))

RECURSIVE NatToString(_)
NatToString(n) ==
    IF n < 10 THEN <<DigitChar(n)>>
    ELSE NatToString(n \div 10) \o <<DigitChar(n % 10)>>

\* A number inside a template literal: `${n}`.
NumberToString(n) ==
    IF n = NaN THEN <<"N", "a", "N">>
    ELSE IF n.val < 0 THEN <<"-">> \o NatToString(0 - n.val)
    ELSE NatToString(n.val)

(***************************************************************************)
(* The inputs: route parameters, drafts, sessions, saveGifting results.    *)
(***************************************************************************)
RouteParams ==
    { [id |-> <<"2">>,      performerId |-> <<"7">>],
      [id |-> <<"0", "2">>, performerId |-> <<"7">>],
      [id |-> <<"9">>,      performerId |-> <<"1", "2">>] }

PaymentDrafts ==
    { [performerName |-> "Aoi", amount |-> <<"3", "0", "0", "0">>,
       comment |-> "ganbatte"],
      [performerName |-> "Rin", amount |-> <<"a", "b", "c">>,
       comment |-> ""] }

UserSessions ==
    { [email |-> "taro@example.com", name |-> "Taro"],
      [email |-> "hana@example.com", name |-> "Hana"] }

\* What a saveGifting call resolves to: success, failure with a reason,
\* failure with an empty reason, failure without one.
SaveResults ==
    { [success |-> TRUE],
      [success |-> FALSE, error |-> "quota exceeded"],
      [success |-> FALSE, error |-> ""],
      [success |-> FALSE] }

Thrown == [thrown |-> TRUE]

(***************************************************************************)
(* ConfirmPage: what each render derives from props and state.             *)
(***************************************************************************)
eventId == ParseInt(params.id)

performerId == ParseInt(params.performerId)

getPaymentInfo == draftStore

\* Mutant: the session of the first attempt is kept for the later ones.
getUserSessionCached == IF sessionLog # <<>> THEN sessionLog[1] ELSE sessionStore

getUserSession == sessionStore

events ==
    (<<"1">> :> [id |-> Num(1), title |-> "Summer Fes 2025"]) @@
    (<<"2">> :> [id |-> Num(2), title |-> "5th Anniversary Live in Yokohama Arena"]) @@
    (<<"3">> :> [id |-> Num(3), title |-> "Birthday Festival 2025"]) @@
    (<<"4">> :> [id |-> Num(4), title |-> "Winter Live 2024"])

\* events[params.id] || { id: eventId, title: "Event" }
event ==
    IF params.id \in DOMAIN events
    THEN events[params.id]
    ELSE [id |-> eventId, title |-> "Event"]

PerformerPath ==
    <<"/events/">> \o NumberToString(eventId) \o
    <<"/performers/">> \o NumberToString(performerId)

LoginPath == <<"/login">>

ThanksPath == PerformerPath \o <<"/thanks">>

\* Mutant: the loading screen of line 118 is missing, the button is always there.
ConfirmAlwaysRendered == TRUE

\* The confirm button exists only once a draft snapshot is held (line 118).
ConfirmRendered == paymentInfo # Null

pending == {a \in 1..Len(handler) : handler[a] = "await"}

(***************************************************************************)
(* The initial state: the instance is mounted, its effect has not run.     *)
(***************************************************************************)
Init ==
    /\ params \in RouteParams
    /\ draftStore \in PaymentDrafts \cup {Null}
    /\ sessionStore \in UserSessions \cup {Null}
    /\ mounted = TRUE
    /\ effectRan = FALSE
    /\ isSubmitting = FALSE
    /\ paymentInfo = Null
    /\ gestures = 0
    /\ sessionLog = <<>>
    /\ handler = <<>>
    /\ saveLog = <<>>
    /\ resultLog = <<>>
    /\ toastLog = <<>>
    /\ navLog = <<>>
    /\ timers = {}

(***************************************************************************)
(* useEffect, lines 35-48.                                                 *)
(***************************************************************************)
Initialize ==
    /\ mounted
    /\ ~effectRan
    /\ effectRan' = TRUE
    /\ LET info == getPaymentInfo
       IN  IF info # Null
           THEN /\ paymentInfo' = [performerName |-> info.performerName,
                                   amount |-> info.amount,
                                   comment |-> info.comment]
                /\ UNCHANGED navLog
           ELSE /\ navLog' = Append(navLog, [att |-> 0, path |-> PerformerPath])
                /\ UNCHANGED paymentInfo
    /\ UNCHANGED <<params, draftStore, sessionStore, mounted, isSubmitting,
                   gestures, sessionLog, handler, saveLog, resultLog,
                   toastLog, timers>>

(***************************************************************************)
(* handleConfirm, lines 50-116: the part that runs in the click, up to the *)
(* await of saveGifting.                                                   *)
(***************************************************************************)
\* Mutant: no double-submission guard.
SubmitGuardMissing == FALSE

\* if (isSubmitting) return, line 51 (and disabled={isSubmitting}, line 172)
\* React commits the state update of a click before the next click is
\* dispatched, so every gesture reads the isSubmitting its predecessor set.
SubmitGuard == isSubmitting

\* Mutant: redirects to the login page without telling the user why.
LoginRedirectSilent(a) ==
    /\ navLog' = Append(navLog, [att |-> a, path |-> LoginPath])
    /\ handler' = Append(handler, "returned")
    /\ UNCHANGED <<saveLog, toastLog>>

\* Mutant: tells the user to log in but does not navigate.
LoginRedirectToastOnly(a) ==
    /\ toastLog' = Append(toastLog, [att |-> a, description |-> "Login is required"])
    /\ handler' = Append(handler, "returned")
    /\ UNCHANGED <<saveLog, navLog>>

\* lines 57-65: no session
LoginRedirect(a) ==
    /\ toastLog' = Append(toastLog, [att |-> a, description |-> "Login is required"])
    /\ navLog' = Append(navLog, [att |-> a, path |-> LoginPath])
    /\ handler' = Append(handler, "returned")
    /\ UNCHANGED saveLog

\* Mutant: user_name is filled from the wrong session field.
BuildRecordWrongName(session) ==
    LET base == [user_id     |-> session.email,
                 user_name   |-> session.email,
                 artist_id   |-> <<"artist-">> \o NumberToString(performerId),
                 artist_name |-> paymentInfo.performerName,
                 event_id    |-> eventId,
                 event_name  |-> event.title,
                 amount      |-> ParseInt(paymentInfo.amount)]
    IN  IF paymentInfo.comment # ""
        THEN ("comment" :> paymentInfo.comment) @@ base
        ELSE base

\* Mutant: the comment is passed on as it is, the empty one too.
BuildRecordEmptyComment(session) ==
    [user_id     |-> session.email,
     user_name   |-> session.name,
     artist_id   |-> <<"artist-">> \o NumberToString(performerId),
     artist_name |-> paymentInfo.performerName,
     event_id    |-> eventId,
     event_name  |-> event.title,
     amount      |-> ParseInt(paymentInfo.amount),
     comment     |-> paymentInfo.comment]

\* Mutant: the record is built from the draft the store holds at the time
\* of the confirm, when it holds one, not from the snapshot.
BuildRecordRereadsDraft(session) ==
    LET info == IF getPaymentInfo # Null THEN getPaymentInfo ELSE paymentInfo
        base == [user_id     |-> session.email,
                 user_name   |-> session.name,
                 artist_id   |-> <<"artist-">> \o NumberToString(performerId),
                 artist_name |-> info.performerName,
                 event_id    |-> eventId,
                 event_name  |-> event.title,
                 amount      |-> ParseInt(info.amount)]
    IN  IF info.comment # ""
        THEN ("comment" :> info.comment) @@ base
        ELSE base

\* the argument of saveGifting, lines 78-87
BuildRecord(session) ==
    LET base == [user_id     |-> session.email,
                 user_name   |-> session.name,
                 artist_id   |-> <<"artist-">> \o NumberToString(performerId),
                 artist_name |-> paymentInfo.performerName,
                 event_id    |-> eventId,
                 event_name  |-> event.title,
                 amount      |-> ParseInt(paymentInfo.amount)]
    IN  IF paymentInfo.comment # ""
        THEN ("comment" :> paymentInfo.comment) @@ base
        ELSE base

\* line 78: the call is made and the handler is suspended at the await
CallSaveGifting(a, session) ==
    /\ saveLog' = Append(saveLog, [att |-> a, record |-> BuildRecord(session)])
    /\ handler' = Append(handler, "await")
    /\ UNCHANGED <<toastLog, navLog>>

\* line 76 false: the handler runs off its end
NothingToSave(a) ==
    /\ handler' = Append(handler, "returned")
    /\ UNCHANGED <<saveLog, toastLog, navLog>>

handleConfirm ==
    /\ mounted
    /\ ConfirmRendered
    /\ gestures < MaxGestures
    /\ gestures' = gestures + 1
    /\ IF SubmitGuard
       THEN UNCHANGED <<isSubmitting, sessionLog, handler, saveLog, toastLog, navLog>>
       ELSE LET a == Len(sessionLog) + 1
                session == getUserSession
            IN  /\ isSubmitting' = TRUE
                /\ sessionLog' = Append(sessionLog, session)
                /\ IF session = Null
                   THEN LoginRedirect(a)
                   ELSE IF paymentInfo # Null
                        THEN CallSaveGifting(a, session)
                        ELSE NothingToSave(a)
    /\ UNCHANGED <<params, draftStore, sessionStore, mounted, effectRan,
                   paymentInfo, resultLog, timers>>

(***************************************************************************)
(* handleConfirm after the await: lines 89-115.  The continuation runs     *)
(* whether or not the screen is still mounted; a state update of an        *)
(* unmounted component has no effect.                                      *)
(***************************************************************************)
setIsSubmitting(v) == isSubmitting' = IF mounted THEN v ELSE isSubmitting

\* Mutant: the failure branch forgets setIsSubmitting(false).
OnFailureStuck(a, result) ==
    /\ toastLog' = Append(toastLog,
          [att |-> a,
           description |-> IF "error" \in DOMAIN result /\ result.error # ""
                           THEN result.error
                           ELSE "Failed to save the gifting"])
    /\ handler' = [handler EXCEPT ![a] = "returned"]
    /\ UNCHANGED <<timers, isSubmitting>>

\* lines 89-97
OnFailure(a, result) ==
    /\ toastLog' = Append(toastLog,
          [att |-> a,
           description |-> IF "error" \in DOMAIN result /\ result.error # ""
                           THEN result.error
                           ELSE "Failed to save the gifting"])
    /\ setIsSubmitting(FALSE)
    /\ handler' = [handler EXCEPT ![a] = "returned"]
    /\ UNCHANGED timers

\* Mutant: success never schedules the navigation.
OnSuccessNoTimer(a) ==
    /\ handler' = [handler EXCEPT ![a] = "returned"]
    /\ UNCHANGED <<toastLog, isSubmitting, timers>>

\* Mutant: the flag is cleared after a success too.
OnSuccessClearsFlag(a) ==
    /\ timers' = timers \cup {a}
    /\ setIsSubmitting(FALSE)
    /\ handler' = [handler EXCEPT ![a] = "returned"]
    /\ UNCHANGED toastLog

\* lines 99-105
OnSuccess(a) ==
    /\ timers' = timers \cup {a}
    /\ handler' = [handler EXCEPT ![a] = "returned"]
    /\ UNCHANGED <<toastLog, isSubmitting>>

\* Mutant: no catch block, the fault leaves handleConfirm.
OnThrowUncaught(a) ==
    /\ handler' = [handler EXCEPT ![a] = "rejected"]
    /\ UNCHANGED <<toastLog, isSubmitting, timers>>

\* lines 107-115
OnThrow(a) ==
    /\ toastLog' = Append(toastLog,
          [att |-> a, description |-> "An error occurred while processing the gifting"])
    /\ setIsSubmitting(FALSE)
    /\ handler' = [handler EXCEPT ![a] = "returned"]
    /\ UNCHANGED timers

SaveGiftingReturns ==
    \E a \in pending, result \in SaveResults :
        /\ resultLog' = Append(resultLog,
              [att |-> a, result |-> result, mounted |-> mounted])
        /\ IF ~result.success THEN OnFailure(a, result) ELSE OnSuccess(a)
        /\ UNCHANGED <<params, draftStore, sessionStore, mounted, effectRan,
                       paymentInfo, gestures, sessionLog, saveLog, navLog>>

SaveGiftingThrows ==
    \E a \in pending :
        /\ resultLog' = Append(resultLog,
              [att |-> a, result |-> Thrown, mounted |-> mounted])
        /\ OnThrow(a)
        /\ UNCHANGED <<params, draftStore, sessionStore, mounted, effectRan,
                       paymentInfo, gestures, sessionLog, saveLog, navLog>>

\* the setTimeout callback, lines 100-105
TimerFires ==
    \E a \in timers :
        /\ navLog' = Append(navLog, [att |-> a, path |-> ThanksPath])
        /\ timers' = timers \ {a}
        /\ UNCHANGED <<params, draftStore, sessionStore, mounted, effectRan,
                       isSubmitting, paymentInfo, gestures, sessionLog,
                       handler, saveLog, resultLog, toastLog>>

(***************************************************************************)
(* The environment: the user leaves the screen (the links of lines 125 and *)
(* 176, or a navigation that completes); the stores change.                *)
(***************************************************************************)
NavigateAway ==
    /\ mounted
    /\ effectRan
    /\ mounted' = FALSE
    /\ UNCHANGED <<params, draftStore, sessionStore, effectRan, isSubmitting,
                   paymentInfo, gestures, sessionLog, handler, saveLog,
                   resultLog, toastLog, navLog, timers>>

SessionChanges ==
    /\ mounted
    /\ \E s \in (UserSessions \cup {Null}) \ {sessionStore} : sessionStore' = s
    /\ UNCHANGED <<params, draftStore, mounted, effectRan, isSubmitting,
                   paymentInfo, gestures, sessionLog, handler, saveLog,
                   resultLog, toastLog, navLog, timers>>

DraftChanges ==
    /\ mounted
    /\ \E d \in (PaymentDrafts \cup {Null}) \ {draftStore} : draftStore' = d
    /\ UNCHANGED <<params, sessionStore, mounted, effectRan, isSubmitting,
                   paymentInfo, gestures, sessionLog, handler, saveLog,
                   resultLog, toastLog, navLog, timers>>

Next ==
    \/ Initialize
    \/ handleConfirm
    \/ SaveGiftingReturns
    \/ SaveGiftingThrows
    \/ TimerFires
    \/ NavigateAway
    \/ SessionChanges
    \/ DraftChanges

Spec == Init /\ [][Next]_vars

\* setTimeout callbacks are run by the event loop.
FairSpec == Spec /\ WF_vars(TimerFires)

\* The same, with a saveGifting that always answers: every call returns a
\* result or throws.
ResponsiveSpec ==
    Spec /\ WF_vars(TimerFires) /\ WF_vars(SaveGiftingReturns \/ SaveGiftingThrows)

(***************************************************************************)
(* What the logs say about one attempt.                                    *)
(***************************************************************************)
Attempts == 1..Len(sessionLog)

ToastsOf(a) == {i \in DOMAIN toastLog : toastLog[i].att = a}

NavsOf(a) == {i \in DOMAIN navLog : navLog[i].att = a}

ThanksNavsOf(a) == {i \in NavsOf(a) : navLog[i].path = ThanksPath}

SavesOf(a) == {i \in DOMAIN saveLog : saveLog[i].att = a}

IsFailure(result) == "success" \in DOMAIN result /\ ~result.success

IsSuccess(result) == "success" \in DOMAIN result /\ result.success

FailedAttempts == {resultLog[i].att : i \in {j \in DOMAIN resultLog : IsFailure(resultLog[j].result)}}

ThrownAttempts == {resultLog[i].att : i \in {j \in DOMAIN resultLog : resultLog[j].result = Thrown}}

SucceededAttempts == {resultLog[i].att : i \in {j \in DOMAIN resultLog : IsSuccess(resultLog[j].result)}}

ResultOf(a) == resultLog[CHOOSE i \in DOMAIN resultLog : resultLog[i].att = a].result

LastAttempt == Len(sessionLog)

\* A step in which a confirm gesture is received.
ConfirmGesture == gestures' = gestures + 1

(***************************************************************************)
(* C1: at most one saveGifting call is outstanding at any time, and a      *)
(* confirm gesture received while a call is outstanding changes nothing:   *)
(* no session query, no notification, no navigation, no saveGifting call.  *)
(***************************************************************************)
C1_SingleOutstandingCall ==
    /\ [](Cardinality(pending) <= 1)
    /\ [][(ConfirmGesture /\ pending # {}) =>
            UNCHANGED <<sessionLog, handler, saveLog, toastLog, navLog,
                        isSubmitting, timers>>]_vars

\* Two gestures, the second one while the first call was outstanding.
C1_Witness ==
    /\ gestures = 2
    /\ pending = {1}
    /\ Len(saveLog) = 1
    /\ resultLog = <<>>

(***************************************************************************)
(* C2: an attempt that finds no session makes exactly one error            *)
(* notification, exactly one navigation, to the login page, and no         *)
(* saveGifting call.                                                       *)
(***************************************************************************)
C2_NoSessionRedirect ==
    \A a \in Attempts :
        sessionLog[a] = Null =>
            /\ Cardinality(ToastsOf(a)) = 1
            /\ \A i \in ToastsOf(a) : toastLog[i].description = "Login is required"
            /\ Cardinality(NavsOf(a)) = 1
            /\ \A i \in NavsOf(a) : navLog[i].path = <<"/login">>
            /\ SavesOf(a) = {}
            /\ a \notin pending

C2_Witness ==
    /\ paymentInfo # Null
    /\ \E a \in Attempts : sessionLog[a] = Null

(***************************************************************************)
(* C3: after a confirm that finds no session the submission state is       *)
(* unchanged: the screen is not submitting and a further confirm is        *)
(* accepted.                                                               *)
(***************************************************************************)
C3_NoSessionLeavesIdle ==
    (mounted /\ LastAttempt > 0 /\ sessionLog[LastAttempt] = Null) =>
        isSubmitting = FALSE

(***************************************************************************)
(* C4: a failure result gives exactly one error notification, carrying the *)
(* reason of the result or a generic text when it has none, no navigation  *)
(* to the thanks page, and a screen on which the next confirm is accepted  *)
(* and makes a new saveGifting call.                                       *)
(***************************************************************************)
C4_FailureIsRetryable ==
    /\ [](\A a \in FailedAttempts :
            /\ Cardinality(ToastsOf(a)) = 1
            /\ \A i \in ToastsOf(a) :
                 toastLog[i].description =
                    IF ResultOf(a) \in {[success |-> FALSE], [success |-> FALSE, error |-> ""]}
                    THEN "Failed to save the gifting"
                    ELSE ResultOf(a).error
            /\ ThanksNavsOf(a) = {}
            /\ a \notin timers
            /\ (mounted /\ a = LastAttempt) => ~isSubmitting)
    /\ [][(ConfirmGesture /\ LastAttempt \in FailedAttempts /\ sessionStore # Null) =>
            /\ Len(saveLog') = Len(saveLog) + 1
            /\ pending' = {LastAttempt + 1}]_vars

\* A failure with a reason was notified, and the retry made a second call.
C4_Witness ==
    /\ 1 \in FailedAttempts
    /\ ResultOf(1) = [success |-> FALSE, error |-> "quota exceeded"]
    /\ \E i \in ToastsOf(1) : toastLog[i].description = "quota exceeded"
    /\ SavesOf(2) # {}

(***************************************************************************)
(* C5: a success result received while the screen is mounted is followed,  *)
(* once the delay has passed, by exactly one navigation to the thanks page *)
(* of this event and performer; that attempt notifies nothing; and the     *)
(* thanks page is never navigated to without a success result before.      *)
(***************************************************************************)
C5_SuccessNavigatesToThanks ==
    /\ [](/\ \A i \in DOMAIN navLog :
                navLog[i].path[Len(navLog[i].path)] = "/thanks" =>
                    /\ navLog[i].att \in SucceededAttempts
                    /\ navLog[i].path =
                          <<"/events/">> \o NumberToString(ParseInt(params.id))
                          \o <<"/performers/">>
                          \o NumberToString(ParseInt(params.performerId))
                          \o <<"/thanks">>
          /\ \A a \in SucceededAttempts :
                /\ ToastsOf(a) = {}
                /\ NavsOf(a) = ThanksNavsOf(a)
                /\ Cardinality(ThanksNavsOf(a)) = IF a \in timers THEN 0 ELSE 1
          /\ Cardinality(SucceededAttempts) <= 1)
    /\ (\E i \in DOMAIN resultLog :
            resultLog[i].mounted /\ IsSuccess(resultLog[i].result))
          ~> (\E a \in SucceededAttempts :
                /\ Cardinality(ThanksNavsOf(a)) = 1
                /\ a \notin timers)

\* The call succeeded on a mounted screen and the delayed navigation was made.
C5_Witness ==
    /\ \E i \in DOMAIN resultLog :
          resultLog[i].mounted /\ IsSuccess(resultLog[i].result)
    /\ timers = {}
    /\ \E i \in DOMAIN navLog : navLog[i].path = ThanksPath
    /\ toastLog = <<>>

(***************************************************************************)
(* C6: when there is no draft at the mount effect, exactly one navigation  *)
(* is made, back to the page of the performer; nothing is notified; no     *)
(* confirm is ever accepted and saveGifting is never called.               *)
(***************************************************************************)
C6_NoDraftRedirects ==
    (effectRan /\ paymentInfo = Null) =>
        /\ navLog = << [att |-> 0,
                        path |-> <<"/events/">> \o NumberToString(eventId)
                                 \o <<"/performers/">> \o NumberToString(performerId)] >>
        /\ toastLog = <<>>
        /\ saveLog = <<>>
        /\ sessionLog = <<>>
        /\ gestures = 0

\* The effect found no draft, and the user has since left the screen.
C6_Witness ==
    /\ effectRan
    /\ paymentInfo = Null
    /\ ~mounted
    /\ Len(navLog) = 1

(***************************************************************************)
(* C7: a fault thrown by saveGifting is handled like a failure result: it  *)
(* does not leave handleConfirm, exactly one error notification is made,   *)
(* the thanks page is not navigated to, and the next confirm is accepted.  *)
(***************************************************************************)
C7_FaultIsCaught ==
    /\ \A a \in Attempts : handler[a] # "rejected"
    /\ \A a \in ThrownAttempts :
          /\ handler[a] = "returned"
          /\ Cardinality(ToastsOf(a)) = 1
          /\ \A i \in ToastsOf(a) :
                toastLog[i].description = "An error occurred while processing the gifting"
          /\ NavsOf(a) = {}
          /\ a \notin timers
          /\ (mounted /\ a = LastAttempt) => ~isSubmitting

\* The first call threw, and the retry was accepted and made a second call.
C7_Witness ==
    /\ 1 \in ThrownAttempts
    /\ SavesOf(2) # {}

(***************************************************************************)
(* C8: the result of a call that was outstanding when the user left the    *)
(* screen is discarded: it leads to no navigation and no notification.     *)
(***************************************************************************)
C8_LateResultDiscarded ==
    \A i \in DOMAIN resultLog :
        ~resultLog[i].mounted =>
            /\ ToastsOf(resultLog[i].att) = {}
            /\ NavsOf(resultLog[i].att) = {}

(***************************************************************************)
(* C9: the event name of the record passed to saveGifting is a function of *)
(* the numeric event id: the catalog title of that id when the catalog has *)
(* it, the placeholder title otherwise.                                    *)
(***************************************************************************)
CatalogIds == {events[k].id : k \in DOMAIN events}

CatalogTitle(id) == events[CHOOSE k \in DOMAIN events : events[k].id = id].title

C9_EventNameByNumericId ==
    \A i \in DOMAIN saveLog :
        saveLog[i].record.event_name =
            IF ParseInt(params.id) \in CatalogIds
            THEN CatalogTitle(ParseInt(params.id))
            ELSE "Event"

(***************************************************************************)
(* C10: the record passed to saveGifting has user_id and user_name from    *)
(* the session of the attempt, artist_id the numeric performer id behind   *)
(* the prefix "artist-", artist_name from the draft snapshot, event_id the *)
(* numeric event id, and amount the integer the amount text denotes.       *)
(***************************************************************************)
RECURSIVE DecimalValue(_)
DecimalValue(s) ==
    IF s = <<>> THEN 0
    ELSE 10 * DecimalValue(SubSeq(s, 1, Len(s) - 1)) + DigitVal(s[Len(s)])

AllDigits(s) == s # <<>> /\ \A i \in DOMAIN s : s[i] \in DigitChars

C10_RecordFields ==
    \A i \in DOMAIN saveLog :
        LET rec == saveLog[i].record
            session == sessionLog[saveLog[i].att]
        IN  /\ session \in UserSessions
            /\ rec.user_id = session.email
            /\ rec.user_name = session.name
            /\ Head(rec.artist_id) = "artist-"
            /\ AllDigits(params.performerId) =>
                  /\ AllDigits(Tail(rec.artist_id))
                  /\ DecimalValue(Tail(rec.artist_id)) = DecimalValue(params.performerId)
            /\ rec.artist_name = paymentInfo.performerName
            /\ AllDigits(params.id) => rec.event_id = Num(DecimalValue(params.id))
            /\ IF AllDigits(paymentInfo.amount)
               THEN rec.amount = Num(DecimalValue(paymentInfo.amount))
               ELSE rec.amount = ParseInt(paymentInfo.amount)

\* A record for performer 12 and amount 3000 was passed to saveGifting, and
\* the session has changed since.
C10_Witness ==
    \E i \in DOMAIN saveLog :
        /\ saveLog[i].record.amount = Num(3000)
        /\ saveLog[i].record.artist_id = <<"artist-", "1", "2">>
        /\ saveLog[i].record.user_name = "Hana"
        /\ sessionStore # sessionLog[saveLog[i].att]

(***************************************************************************)
(* C11: the record passed to saveGifting carries the comment of the draft  *)
(* snapshot when that is not empty, and has no comment field at all when   *)
(* it is the empty text.                                                   *)
(***************************************************************************)
C11_EmptyCommentOmitted ==
    \A i \in DOMAIN saveLog :
        LET rec == saveLog[i].record
        IN  IF paymentInfo.comment = ""
            THEN "comment" \notin DOMAIN rec
            ELSE "comment" \in DOMAIN rec /\ rec.comment = paymentInfo.comment

\* A record was passed to saveGifting for a draft with the empty comment.
C11_Witness ==
    /\ paymentInfo # Null
    /\ paymentInfo.comment = ""
    /\ saveLog # <<>>
    /\ "comment" \notin DOMAIN saveLog[1].record

(***************************************************************************)
(* C12: saveGifting is never called with a record whose amount is not an   *)
(* integer: when the amount text of the draft does not parse, the attempt  *)
(* is given up before the call.                                            *)
(***************************************************************************)
C12_AmountIsInteger ==
    \A i \in DOMAIN saveLog :
        /\ saveLog[i].record.amount # NaN
        /\ saveLog[i].record.amount.val \in Int

(***************************************************************************)
(* C13: when every saveGifting call answers, every accepted confirm comes  *)
(* to an end with exactly one of two outcomes: a navigation was triggered, *)
(* to the thanks or to the login page, or the call failed and the screen   *)
(* accepts a confirm again.  The screen does not stay submitting for ever. *)
(***************************************************************************)
Finished(a) == handler[a] = "returned" /\ a \notin timers

C13_AttemptEnds ==
    /\ [](\A a \in Attempts :
            Finished(a) =>
                /\ (NavsOf(a) # {}) # (a \in FailedAttempts \cup ThrownAttempts)
                /\ \A i \in NavsOf(a) : navLog[i].path \in {LoginPath, ThanksPath}
                /\ Cardinality(NavsOf(a)) <= 1
                /\ (a \in FailedAttempts \cup ThrownAttempts /\ mounted /\ a = LastAttempt)
                      => ~isSubmitting)
    /\ (pending # {}) ~> (pending = {} /\ timers = {} /\ \A a \in Attempts : Finished(a))

\* The first call failed, the retry succeeded and the thanks page was navigated to.
C13_Witness ==
    /\ 1 \in FailedAttempts \cup ThrownAttempts
    /\ 2 \in SucceededAttempts
    /\ Finished(2)
    /\ ThanksNavsOf(2) # {}

(***************************************************************************)
(* C14: every accepted confirm reads the session anew.  When the session   *)
(* is gone at the time of the attempt, a retry after a failure included,   *)
(* no saveGifting call is made and the login page is navigated to; when    *)
(* there is one, the record of the attempt names the user of that session. *)
(***************************************************************************)
AcceptedConfirm == Len(sessionLog') = Len(sessionLog) + 1

C14_SessionReadPerAttempt ==
    [][AcceptedConfirm =>
        IF sessionStore = Null
        THEN /\ saveLog' = saveLog
             /\ navLog' = Append(navLog, [att |-> Len(sessionLog'), path |-> <<"/login">>])
        ELSE /\ Len(saveLog') = Len(saveLog) + 1
             /\ saveLog'[Len(saveLog')].att = Len(sessionLog')
             /\ saveLog'[Len(saveLog')].record.user_id = sessionStore.email
             /\ saveLog'[Len(saveLog')].record.user_name = sessionStore.name
             /\ navLog' = navLog]_vars

\* The first call failed, the user was logged out, and the retry went to login.
C14_Witness ==
    /\ 1 \in FailedAttempts
    /\ Len(sessionLog) = 2
    /\ sessionLog[1] # Null
    /\ sessionLog[2] = Null
    /\ SavesOf(2) = {}
    /\ \E i \in NavsOf(2) : navLog[i].path = LoginPath

(***************************************************************************)
(* C15: once the mount effect has taken the draft, the snapshot never      *)
(* changes: whatever happens to the draft in the store afterwards, while a *)
(* call is outstanding or before a retry, every record passed to           *)
(* saveGifting has the performer name, amount and comment of the snapshot. *)
(***************************************************************************)
RecordComment(rec) == IF "comment" \in DOMAIN rec THEN rec.comment ELSE ""

C15_SnapshotImmutable ==
    /\ [][paymentInfo # Null => paymentInfo' = paymentInfo]_vars
    /\ [](\A i \in DOMAIN saveLog :
            /\ saveLog[i].record.artist_name = paymentInfo.performerName
            /\ saveLog[i].record.amount = ParseInt(paymentInfo.amount)
            /\ RecordComment(saveLog[i].record) = paymentInfo.comment)

\* The draft in the store was changed or cleared after the snapshot was
\* taken, the first call failed, and the retry passed the snapshot again.
C15_Witness ==
    /\ paymentInfo # Null
    /\ draftStore # paymentInfo
    /\ 1 \in FailedAttempts \cup ThrownAttempts
    /\ Len(saveLog) = 2
    /\ \A i \in DOMAIN saveLog : saveLog[i].record.artist_name = paymentInfo.performerName

(***************************************************************************)
(* C16: at most one saveGifting call of an instance ever succeeds: after a *)
(* success the submitting flag is never cleared and every later confirm    *)
(* gesture is ignored, also while the thanks navigation is still delayed.  *)
(***************************************************************************)
SuccessResults == {i \in DOMAIN resultLog : IsSuccess(resultLog[i].result)}

C16_AtMostOneSuccess ==
    /\ [](Cardinality(SuccessResults) <= 1)
    /\ [](SuccessResults # {} => isSubmitting /\ pending = {})
    /\ [][(SuccessResults # {} /\ ConfirmGesture) =>
            UNCHANGED <<sessionLog, handler, saveLog, resultLog, toastLog,
                        navLog, timers, isSubmitting>>]_vars

\* A call has succeeded, its navigation is still delayed, and a second
\* confirm gesture has made no second attempt.
C16_Witness ==
    /\ 1 \in SucceededAttempts
    /\ 1 \in timers
    /\ mounted
    /\ gestures = 2
    /\ Len(sessionLog) = 1
    /\ Len(saveLog) = 1

(***************************************************************************)
(* C17: on a mounted screen the submitting flag is set only while a        *)
(* saveGifting call is outstanding or after one has succeeded; no path     *)
(* without a call leaves it set.                                           *)
(***************************************************************************)
C17_FlagMeansCall ==
    (mounted /\ isSubmitting) => (pending # {} \/ SuccessResults # {})

====
